---------------------------- MODULE Spec2Model ----------------------------
(***************************************************************************)
(* Model of src/lex.js: the text normaliser and tokenizer, the segment and *)
(* sliding-window generators, and the LexicalRichness class with its       *)
(* metric queries.                                                         *)
(*                                                                         *)
(* A text is a sequence of one-character strings; a token is a non-empty   *)
(* sequence of characters; a token sequence is a sequence of tokens.       *)
(* A JavaScript number is modelled exactly: a finite rational result is a  *)
(* reduced fraction, the irrational results (square roots, logarithms) are *)
(* kept symbolic, and the IEEE-754 special values NaN and +/-Infinity are  *)
(* outcomes of their own.  An outcome is a record [kind, num, den].        *)
(***************************************************************************)
EXTENDS Integers, Sequences, FiniteSets

\* ------------------------------------------------------------------ bounds

\* longest text handed to the constructor
MaxTextLen == 3
\* longest token array handed to the constructor (and kept by caller writes)
MaxLen == 4
\* segment and window sizes range over -MaxNeg .. MaxLen + 1
MaxNeg == 1

\* default of msttr's segmentSize parameter
DefaultSegmentSize == 100
\* default of mattr's windowSize parameter
DefaultWindowSize == 100

\* ------------------------------------------------------------- characters

Digits == {"0", "1", "2", "3", "4", "5", "6", "7", "8", "9"}
\* the character class [–—-]: en dash, em dash, hyphen-minus
Dashes == {"en-dash", "em-dash", "-"}
\* the characters \s matches that the bounded texts use
Whitespace == {" ", "\t", "\n"}

\* the characters texts are drawn from
Alphabet == {"a", "A", "b", " ", "7", "-"}
\* the tokens arrays are drawn from
ArrayTokens == {<<"a">>, <<"b">>}

\* String.prototype.toLowerCase on one character
toLowerCase(c) ==
  CASE c = "A" -> "a"
    [] c = "B" -> "b"
    [] OTHER -> c

RECURSIVE RemoveAll(_, _)
\* text.replace(/[set]/g, ""), also text.replace(/[set]+/g, ""): every
\* character of the class is deleted, its neighbours become adjacent
RemoveAll(text, set) ==
  IF text = <<>> THEN <<>>
  ELSE IF Head(text) \in set THEN RemoveAll(Tail(text), set)
       ELSE <<Head(text)>> \o RemoveAll(Tail(text), set)

\* function preprocess(text)
preprocess(text) ==
  LET lowered  == [i \in 1..Len(text) |-> toLowerCase(text[i])]
      noDigits == RemoveAll(lowered, Digits)
  IN  RemoveAll(noDigits, Dashes)

RECURSIVE SplitLoop(_, _, _, _)
\* text.split(/\s+/g): the pieces between the maximal whitespace runs, the
\* empty piece before a leading run and after a trailing run included
SplitLoop(text, i, cur, pieces) ==
  IF i > Len(text) THEN Append(pieces, cur)
  ELSE IF text[i] \in Whitespace
       THEN IF i > 1 /\ text[i - 1] \in Whitespace
            THEN SplitLoop(text, i + 1, cur, pieces)
            ELSE SplitLoop(text, i + 1, <<>>, Append(pieces, cur))
       ELSE SplitLoop(text, i + 1, Append(cur, text[i]), pieces)

split(text) == SplitLoop(text, 1, <<>>, <<>>)

\* function tokenize(text)
tokenize(text) ==
  LET pre == preprocess(text)
  IN  SelectSeq(split(pre), LAMBDA word : Len(word) > 0)

\* ------------------------------------------------------------ JS helpers

Min(a, b) == IF a < b THEN a ELSE b
Max(a, b) == IF a > b THEN a ELSE b

\* Array.prototype.slice(start, end) with 0-based arguments: a negative
\* argument counts from the end, both are clamped to 0 .. length
slice(list, start, end) ==
  LET len == Len(list)
      k   == IF start < 0 THEN Max(len + start, 0) ELSE Min(start, len)
      fin == IF end < 0 THEN Max(len + end, 0) ELSE Min(end, len)
  IN  IF fin > k THEN SubSeq(list, k + 1, fin) ELSE <<>>

\* new Set(list).size
SetSize(list) == Cardinality({list[i] : i \in 1..Len(list)})

RECURSIVE GCD(_, _)
GCD(a, b) == IF b = 0 THEN a ELSE GCD(b, a % b)

NaN == [kind |-> "NaN", num |-> 0, den |-> 1]
Infinity == [kind |-> "Infinity", num |-> 0, den |-> 1]
NegInfinity == [kind |-> "-Infinity", num |-> 0, den |-> 1]
\* the finite number n / d (n >= 0, d > 0) as a reduced fraction
Number(n, d) ==
  LET g == GCD(n, d) IN [kind |-> "Number", num |-> n \div g, den |-> d \div g]
\* a thrown exception of the named class
Throw(class) == [kind |-> class, num |-> 0, den |-> 1]
\* the call does not return: its loop runs until memory is exhausted
NoReturn == [kind |-> "NoReturn", num |-> 0, den |-> 1]

\* a / b on non-negative integers, as IEEE-754 division
Div(a, b) ==
  IF b = 0 THEN (IF a = 0 THEN NaN ELSE Infinity) ELSE Number(a, b)

RECURSIVE SumFractions(_)
\* the exact sum of a sequence of Number outcomes, as <<numerator, denominator>>
SumFractions(xs) ==
  IF xs = <<>> THEN <<0, 1>>
  ELSE LET rest == SumFractions(Tail(xs))
           x    == Head(xs)
       IN  <<x.num * rest[2] + rest[1] * x.den, x.den * rest[2]>>

\* lodash _.mean(array): NaN for an empty array, else sum / length; NaN and
\* Infinity propagate through the sum
mean(xs) ==
  IF Len(xs) = 0 THEN NaN
  ELSE IF \E i \in 1..Len(xs) : xs[i].kind = "NaN" THEN NaN
  ELSE IF \E i \in 1..Len(xs) : xs[i].kind = "Infinity" THEN Infinity
  ELSE LET s == SumFractions(xs) IN Number(s[1], s[2] * Len(xs))

\* ------------------------------------------------------------- generators

RECURSIVE segmentLoop(_, _, _, _, _)
\* the for loop of segmentGenerator: i is the loop variable, iter counts the
\* iterations begun.  With segmentSize >= 1 the loop variable reaches
\* list.length within list.length iterations; an iteration begun after that
\* many means the loop variable does not advance (segmentSize <= 0), so that
\* the condition i < list.length stays true and the loop never exits.
segmentLoop(list, segmentSize, i, segments, iter) ==
  IF ~(i < Len(list)) THEN [returns |-> TRUE, segments |-> segments]
  ELSE IF iter >= Len(list) THEN [returns |-> FALSE, segments |-> segments]
  ELSE segmentLoop(list, segmentSize, i + segmentSize,
                   Append(segments, slice(list, i, i + segmentSize)), iter + 1)

\* segmentGenerator with the loop condition i + segmentSize <= list.length:
\* a short last segment is never pushed
segmentGenerator_DropsRemainder(list, segmentSize) ==
  LET gen == segmentLoop(list, segmentSize, 0, <<>>, 0)
      n   == Len(gen.segments)
  IN  IF gen.returns /\ n > 0 /\ Len(gen.segments[n]) < segmentSize
      THEN [returns |-> TRUE, segments |-> SubSeq(gen.segments, 1, n - 1)]
      ELSE gen

\* function segmentGenerator(list, segmentSize)
segmentGenerator(list, segmentSize) ==
  segmentLoop(list, segmentSize, 0, <<>>, 0)

RECURSIVE windowLoop(_, _, _, _)
\* the for loop of slidingWindow; it always exits, i grows by one
windowLoop(sequence, windowSize, i, windows) ==
  IF ~(i <= Len(sequence) - windowSize) THEN windows
  ELSE windowLoop(sequence, windowSize, i + 1,
                  Append(windows, slice(sequence, i, i + windowSize)))

\* slidingWindow with the loop condition i < sequence.length - windowSize:
\* the last window is never pushed
slidingWindow_OffByOne(sequence, windowSize) ==
  LET windows == windowLoop(sequence, windowSize, 0, <<>>)
  IN  SubSeq(windows, 1, Len(windows) - 1)

\* function slidingWindow(sequence, windowSize = 2)
slidingWindow(sequence, windowSize) ==
  windowLoop(sequence, windowSize, 0, <<>>)

\* ------------------------------------------------------- LexicalRichness

\* what the constructor is handed: a string or an array of tokens.  Any
\* other value makes the constructor throw, and no instance exists.
StringInput(text) == [isString |-> TRUE, text |-> text, tokens |-> <<>>]
ArrayInput(tokens) == [isString |-> FALSE, text |-> <<>>, tokens |-> tokens]

\* the constructor with this.terms = this.wordlist.length: no Set is built
LexicalRichness_CountsTokens(input) ==
  LET wordlist == IF input.isString
                  THEN tokenize(preprocess(input.text))
                  ELSE input.tokens
  IN  [wordlist |-> wordlist,
       words    |-> Len(wordlist),
       terms    |-> Len(wordlist),
       shared   |-> ~input.isString]

\* constructor(text, preprocessor = preprocess, tokenizer = tokenize): the
\* fields of the new instance.  A string is preprocessed and then tokenized
\* (which preprocesses again); an array becomes this.wordlist itself, the
\* caller's array and not a copy of it (shared).
LexicalRichness(input) ==
  LET wordlist == IF input.isString
                  THEN tokenize(preprocess(input.text))
                  ELSE input.tokens
  IN  [wordlist |-> wordlist,
       words    |-> Len(wordlist),
       terms    |-> SetSize(wordlist),
       shared   |-> ~input.isString]

\* get ttr()
ttr(terms_, words_) == Div(terms_, words_)

\* terms / Math.sqrt(k * words): sqrt(0) is 0, and the quotient is
\* irrational in general, kept as num / sqrt(den)
DivSqrt(a, b) ==
  IF b = 0 THEN (IF a = 0 THEN NaN ELSE Infinity)
  ELSE [kind |-> "SqrtRatio", num |-> a, den |-> b]

\* get rttr()
rttr(terms_, words_) == DivSqrt(terms_, words_)

\* get cttr()
cttr(terms_, words_) == DivSqrt(terms_, 2 * words_)

\* get herdan(): Math.log(0) is -Infinity and Math.log(1) is 0; a finite
\* quotient is kept as ln(num) / ln(den)
herdan(terms_, words_) ==
  CASE words_ = 0 ->
         IF terms_ = 0 THEN NaN ELSE Number(0, 1)
    [] words_ = 1 ->
         IF terms_ = 0 THEN NegInfinity
         ELSE IF terms_ = 1 THEN NaN ELSE Infinity
    [] OTHER ->
         IF terms_ = 0 THEN NegInfinity
         ELSE [kind |-> "LnRatio", num |-> terms_, den |-> words_]

\* get maas(): (logW - logT) / logW ** 2; a finite result is kept as
\* (ln(den) - ln(num)) / ln(den)^2
maas(terms_, words_) ==
  CASE words_ = 0 -> NaN
    [] words_ = 1 ->
         IF terms_ = 0 THEN Infinity
         ELSE IF terms_ = 1 THEN NaN ELSE NegInfinity
    [] OTHER ->
         IF terms_ = 0 THEN Infinity
         ELSE [kind |-> "Maas", num |-> terms_, den |-> words_]

\* msttrSegments with the comparison <= segmentSize: a full last segment is
\* popped too
msttrSegments_DiscardFull(wordlist_, segmentSize, discard) ==
  LET gen      == segmentGenerator(wordlist_, segmentSize)
      segments == gen.segments
      n        == Len(segments)
  IN  IF ~gen.returns THEN [kind |-> "NoReturn", segments |-> <<>>]
      ELSE IF ~discard THEN [kind |-> "ok", segments |-> segments]
      ELSE IF n = 0 THEN [kind |-> "TypeError", segments |-> <<>>]
      ELSE IF Len(segments[n]) <= segmentSize
           THEN [kind |-> "ok", segments |-> SubSeq(segments, 1, n - 1)]
           ELSE [kind |-> "ok", segments |-> segments]

\* the first statements of msttr: the segments, and the last one popped when
\* discard is set and it is short.  segments[segments.length - 1] is
\* undefined for an empty array, and reading its length throws a TypeError;
\* discard && ... does not evaluate it when discard is false.
msttrSegments(wordlist_, segmentSize, discard) ==
  LET gen      == segmentGenerator(wordlist_, segmentSize)
      segments == gen.segments
      n        == Len(segments)
  IN  IF ~gen.returns THEN [kind |-> "NoReturn", segments |-> <<>>]
      ELSE IF ~discard THEN [kind |-> "ok", segments |-> segments]
      ELSE IF n = 0 THEN [kind |-> "TypeError", segments |-> <<>>]
      ELSE IF Len(segments[n]) < segmentSize
           THEN [kind |-> "ok", segments |-> SubSeq(segments, 1, n - 1)]
           ELSE [kind |-> "ok", segments |-> segments]

\* chunks.map((chunk) => new Set(chunk).size / chunk.length)
chunkTtrs(chunks) ==
  [k \in 1..Len(chunks) |-> Div(SetSize(chunks[k]), Len(chunks[k]))]

\* msttr(segmentSize = 100, discard = true)
msttr(wordlist_, segmentSize, discard) ==
  LET kept == msttrSegments(wordlist_, segmentSize, discard)
  IN  CASE kept.kind = "NoReturn" -> NoReturn
        [] kept.kind = "TypeError" -> Throw("TypeError")
        [] OTHER -> mean(chunkTtrs(kept.segments))

\* mattr without its guard
mattr_NoGuard(wordlist_, words_, windowSize) ==
  mean(chunkTtrs(slidingWindow(wordlist_, windowSize)))

\* mattr(windowSize = 100); the guard reads this.words, the windows are
\* taken from this.wordlist
mattr(wordlist_, words_, windowSize) ==
  IF windowSize > words_ THEN Throw("Error")
  ELSE mean(chunkTtrs(slidingWindow(wordlist_, windowSize)))

\* ---------------------------------------------------------- state machine

VARIABLES
  input,      \* the value the constructor was handed
  wordlist,   \* this.wordlist
  words,      \* this.words
  terms,      \* this.terms
  shared,     \* this.wordlist is the array the caller still holds
  call,       \* the last query: [op, size, discard]
  result      \* its outcome

vars == <<input, wordlist, words, terms, shared, call, result>>

RECURSIVE SeqsUpTo(_, _)
\* the sequences over S of length at most n
SeqsUpTo(S, n) ==
  IF n = 0 THEN {<<>>}
  ELSE LET shorter == SeqsUpTo(S, n - 1)
       IN  shorter \cup {Append(s, x) : s \in shorter, x \in S}

Texts == SeqsUpTo(Alphabet, MaxTextLen)
Arrays == SeqsUpTo(ArrayTokens, MaxLen)
Inputs == {StringInput(t) : t \in Texts} \cup {ArrayInput(a) : a \in Arrays}

\* the sizes a query is called with; the defaults stand for an omitted one
Sizes == ((0 - MaxNeg)..(MaxLen + 1)) \cup {DefaultSegmentSize, DefaultWindowSize}

Query(op, size, discard) == [op |-> op, size |-> size, discard |-> discard]

\* the state after new LexicalRichness(input)
Init ==
  \E in \in Inputs :
    LET lex == LexicalRichness(in)
    IN  /\ input = in
        /\ wordlist = lex.wordlist
        /\ words = lex.words
        /\ terms = lex.terms
        /\ shared = lex.shared
        /\ call = Query("new", 0, FALSE)
        /\ result = [kind |-> "Instance", num |-> 0, den |-> 1]

Instance == <<input, wordlist, words, terms, shared>>

Ttr ==
  /\ call' = Query("ttr", 0, FALSE)
  /\ result' = ttr(terms, words)
  /\ UNCHANGED Instance

Rttr ==
  /\ call' = Query("rttr", 0, FALSE)
  /\ result' = rttr(terms, words)
  /\ UNCHANGED Instance

Cttr ==
  /\ call' = Query("cttr", 0, FALSE)
  /\ result' = cttr(terms, words)
  /\ UNCHANGED Instance

Herdan ==
  /\ call' = Query("herdan", 0, FALSE)
  /\ result' = herdan(terms, words)
  /\ UNCHANGED Instance

Maas ==
  /\ call' = Query("maas", 0, FALSE)
  /\ result' = maas(terms, words)
  /\ UNCHANGED Instance

Msttr(segmentSize, discard) ==
  /\ call' = Query("msttr", segmentSize, discard)
  /\ result' = msttr(wordlist, segmentSize, discard)
  /\ UNCHANGED Instance

Mattr(windowSize) ==
  /\ call' = Query("mattr", windowSize, FALSE)
  /\ result' = mattr(wordlist, words, windowSize)
  /\ UNCHANGED Instance

\* the caller writes to the array it passed to the constructor: push, pop
\* or an element assignment.  this.wordlist is that array; this.words and
\* this.terms are not recomputed.
CallerPush(token) ==
  /\ shared
  /\ Len(wordlist) < MaxLen
  /\ wordlist' = Append(wordlist, token)
  /\ UNCHANGED <<input, words, terms, shared, call, result>>

CallerPop ==
  /\ shared
  /\ Len(wordlist) > 0
  /\ wordlist' = SubSeq(wordlist, 1, Len(wordlist) - 1)
  /\ UNCHANGED <<input, words, terms, shared, call, result>>

CallerAssign(i, token) ==
  /\ shared
  /\ i \in 1..Len(wordlist)
  /\ wordlist[i] # token
  /\ wordlist' = [wordlist EXCEPT ![i] = token]
  /\ UNCHANGED <<input, words, terms, shared, call, result>>

Queries ==
  \/ Ttr
  \/ Rttr
  \/ Cttr
  \/ Herdan
  \/ Maas
  \/ \E s \in Sizes, d \in BOOLEAN : Msttr(s, d)
  \/ \E s \in Sizes : Mattr(s)

CallerWrites ==
  \/ \E t \in ArrayTokens : CallerPush(t)
  \/ CallerPop
  \/ \E i \in 1..MaxLen, t \in ArrayTokens : CallerAssign(i, t)

\* an instance and the queries on it
Next == Queries

Spec == Init /\ [][Next]_vars

\* an instance, the queries on it, and the caller's writes to its array
NextShared == Queries \/ CallerWrites

SpecShared == Init /\ [][NextShared]_vars

\* ------------------------------------------------------------ properties

\* The spec's failure kinds.  The code's only throw statement in a query is
\* throw new Error(...), the failure the spec calls InvalidArgument; nothing
\* in the code raises what the spec calls DivisionUndefined.
InvalidArgument(r) == r.kind = "Error"
DivisionUndefined(r) == r.kind = "DivisionUndefined"
\* the call returned a JavaScript number, NaN and the infinities included
Returned(r) ==
  r.kind \in {"Number", "NaN", "Infinity", "-Infinity", "SqrtRatio", "LnRatio", "Maas"}

\* the number of distinct tokens of a chunk
Distinct(chunk) == Cardinality({chunk[i] : i \in 1..Len(chunk)})

\* the tokens at the 0-based indices [lo, hi)
Slice0(tokens, lo, hi) == SubSeq(tokens, lo + 1, hi)

CeilDiv(a, b) == (a + b - 1) \div b

RECURSIVE RatioSum(_)
\* the sum of distinct(chunk) / len(chunk) over non-empty chunks, as
\* <<numerator, denominator>>
RatioSum(chunks) ==
  IF chunks = <<>> THEN <<0, 1>>
  ELSE LET rest == RatioSum(Tail(chunks))
           c    == Head(chunks)
       IN  <<Distinct(c) * rest[2] + rest[1] * Len(c), Len(c) * rest[2]>>

\* r is the arithmetic mean of distinct(chunk) / len(chunk) over the chunks
IsMeanOver(r, chunks) ==
  /\ r.kind = "Number"
  /\ LET s == RatioSum(chunks)
     IN  r.num * s[2] * Len(chunks) = s[1] * r.den

RECURSIVE Flatten(_)
Flatten(chunks) ==
  IF chunks = <<>> THEN <<>> ELSE Head(chunks) \o Flatten(Tail(chunks))

\* segment k (0-based) of the partition of tokens into chunks of size
SegmentAt(tokens, size, k) ==
  Slice0(tokens, k * size, Min((k + 1) * size, Len(tokens)))

\* the segments msttr is to average: the full ones with discard, all without
KeptSegments(tokens, size, discard) ==
  LET n == IF discard THEN Len(tokens) \div size ELSE CeilDiv(Len(tokens), size)
  IN  [k \in 1..n |-> SegmentAt(tokens, size, k - 1)]

\* the windows mattr is to average
Windows(tokens, size) ==
  [i \in 1..Max(0, Len(tokens) - size + 1) |-> Slice0(tokens, i - 1, i - 1 + size)]

Getters == {"ttr", "rttr", "cttr", "herdan", "maas"}

\* C1: mattr(windowSize) with windowSize > words fails with InvalidArgument
\* (the guard's throw), for every token sequence, the empty one included; it
\* never returns a number.
C1_MattrRejectsOversizedWindow ==
  (call.op = "mattr" /\ call.size > words) =>
    (InvalidArgument(result) /\ ~Returned(result))

\* C1 witness: mattr on an empty instance with a positive window size.
C1_Witness ==
  /\ call.op = "mattr"
  /\ words = 0
  /\ call.size >= 1
  /\ InvalidArgument(result)

\* C2 as stated: msttr with a positive segmentSize, discard = true and
\* words < segmentSize fails with DivisionUndefined.
C2_MsttrNothingLeftFails ==
  (call.op = "msttr" /\ call.size >= 1 /\ call.discard /\ words < call.size) =>
    DivisionUndefined(result)

\* C3 as stated: msttr with segmentSize <= 0 fails with InvalidArgument, for
\* either value of discard.
C3_MsttrRejectsNonPositiveSize ==
  (call.op = "msttr" /\ call.size <= 0) => InvalidArgument(result)

\* C4 as stated: with words = 0 each of ttr, rttr, cttr, herdan and maas
\* fails with DivisionUndefined, and with words = 1 herdan and maas do; none
\* returns NaN or an infinity.
C4_ZeroDenominatorFails ==
  /\ (call.op \in Getters /\ words = 0) => DivisionUndefined(result)
  /\ (call.op \in {"herdan", "maas"} /\ words = 1) => DivisionUndefined(result)
  /\ call.op \in Getters => result.kind \notin {"NaN", "Infinity", "-Infinity"}

\* C5 as stated: in every state words is the length of the instance's token
\* sequence, terms its number of distinct tokens, and the token sequence is
\* the one present at construction, whatever queries and caller writes to
\* the constructor's array have occurred.
C5_InstanceImmutable ==
  /\ words = Len(wordlist)
  /\ terms = Distinct(wordlist)
  /\ wordlist = LexicalRichness(input).wordlist

\* C6: for a positive size, segmentGenerator(tokens, size) returns
\* ceil(len / size) segments; all but possibly the last have length size, the
\* last has length len mod size when that is non-zero; segment k covers the
\* indices [k * size, min((k + 1) * size, len)); their concatenation is tokens.
C6_SegmentsPartition ==
  (call.op = "msttr" /\ call.size >= 1) =>
    LET size == call.size
        len  == Len(wordlist)
        gen  == segmentGenerator(wordlist, size)
        segs == gen.segments
        n    == Len(segs)
    IN  /\ gen.returns
        /\ n = CeilDiv(len, size)
        /\ \A k \in 1..n :
             /\ segs[k] = SegmentAt(wordlist, size, k - 1)
             /\ k < n => Len(segs[k]) = size
             /\ Len(segs[k]) >= 1
        /\ n > 0 => Len(segs[n]) = (IF len % size = 0 THEN size ELSE len % size)
        /\ Flatten(segs) = wordlist

\* C6 witness: a segmentation with several segments and a short last one.
C6_Witness ==
  /\ call.op = "msttr"
  /\ call.size >= 2
  /\ Len(wordlist) > call.size
  /\ Len(wordlist) % call.size # 0

\* C7 as stated: for every token sequence and positive segmentSize msttr
\* returns a number, the mean of distinct / len over the segments kept:
\* the floor(words / segmentSize) full segments with discard, all
\* ceil(words / segmentSize) segments without.
C7_MsttrMeanOverKept ==
  (call.op = "msttr" /\ call.size >= 1) =>
    LET kept == KeptSegments(wordlist, call.size, call.discard)
    IN  /\ Returned(result)
        /\ kept # <<>> => IsMeanOver(result, kept)

\* C8: for 1 <= windowSize <= words mattr returns the mean of distinct / len
\* over the words - windowSize + 1 windows, window i being the tokens at
\* [i, i + windowSize); slidingWindow yields max(0, len - size + 1) such
\* windows for every positive size.
C8_MattrMeanOverWindows ==
  /\ (call.op = "mattr" /\ 1 <= call.size /\ call.size <= words) =>
       LET wins == Windows(wordlist, call.size)
       IN  /\ Len(wins) = words - call.size + 1
           /\ \A i \in 1..Len(wins) : Len(wins[i]) = call.size
           /\ slidingWindow(wordlist, call.size) = wins
           /\ IsMeanOver(result, wins)
  /\ \A size \in {s \in Sizes : s >= 1} :
       LET wins == slidingWindow(wordlist, size)
       IN  /\ Len(wins) = Max(0, Len(wordlist) - size + 1)
           /\ \A i \in 1..Len(wins) :
                wins[i] = Slice0(wordlist, i - 1, i - 1 + size)

\* C8 witness: mattr over several windows that do not all have the same ratio.
C8_Witness ==
  /\ call.op = "mattr"
  /\ call.size >= 2
  /\ words >= call.size + 2
  /\ result.kind = "Number"
  /\ result.num # result.den
  /\ Distinct(Slice0(wordlist, 0, call.size)) = call.size

\* C9: on a non-empty token sequence msttr(words, discard), for either
\* discard, and mattr(words) evaluate one chunk, the whole sequence, and
\* return terms / words, the value of ttr.
C9_WholeSequenceChunk ==
  (words >= 1 /\ call.op \in {"msttr", "mattr"} /\ call.size = words) =>
    /\ result = ttr(terms, words)
    /\ result.kind = "Number"
    /\ result.num * words = terms * result.den
    /\ call.op = "msttr" =>
         msttrSegments(wordlist, call.size, call.discard)
           = [kind |-> "ok", segments |-> <<wordlist>>]
    /\ call.op = "mattr" => slidingWindow(wordlist, call.size) = <<wordlist>>

\* C9 witness: msttr(words, true) on a sequence with a repeated token.
C9_Witness ==
  /\ call.op = "msttr"
  /\ call.discard
  /\ words >= 2
  /\ call.size = words
  /\ terms < words
  /\ result.kind = "Number"

\* C10: 0 <= terms <= words; on a non-empty token sequence terms >= 1 and
\* ttr is a number in (0, 1], equal to 1 exactly when the tokens are pairwise
\* distinct.
C10_TermsWithinWords ==
  /\ 0 <= terms
  /\ terms <= words
  /\ words >= 1 =>
       /\ terms >= 1
       /\ call.op = "ttr" =>
            /\ result.kind = "Number"
            /\ 0 < result.num
            /\ result.num <= result.den
            /\ result.num * words = terms * result.den
            /\ (result.num = result.den) <=>
                 (\A i, j \in 1..Len(wordlist) :
                    wordlist[i] = wordlist[j] => i = j)

\* C10 witness: ttr below 1 on a sequence with a repeated token.
C10_Witness ==
  /\ call.op = "ttr"
  /\ words >= 2
  /\ terms < words
  /\ result.kind = "Number"
  /\ result.num < result.den

\* Where at least one segment is kept, msttr returns the mean over the
\* segments kept (the part of C7 that the code satisfies).
MsttrMeanWhenKept ==
  (call.op = "msttr" /\ call.size >= 1) =>
    LET kept == KeptSegments(wordlist, call.size, call.discard)
    IN  kept # <<>> =>
          /\ msttrSegments(wordlist, call.size, call.discard)
               = [kind |-> "ok", segments |-> kept]
          /\ IsMeanOver(result, kept)

\* No query writes to the instance.
QueriesKeepInstance == [][Queries => UNCHANGED Instance]_vars

=============================================================================
